---- MODULE Spec2Model ----
(***************************************************************************)
(* W25N01GV serial NAND flash driver (w25n01gv-rs).                        *)
(*                                                                         *)
(* The driver owns a QSPI transport and talks to the chip with two         *)
(* primitives, write(command) and transfer(command, buffer).  The state of *)
(* the model is the caller's handle (its typestate), the chip, the list of *)
(* transport calls made by the API call in progress (or the last one), and *)
(* the record of that API call.  `main` is the position of the example     *)
(* program that makes the calls, when one does.                            *)
(***************************************************************************)
EXTENDS Integers, Sequences, FiniteSets, TLC

VARIABLES handle, dev, bus, op, pc, main

vars == <<handle, dev, bus, op, pc, main>>

(***************************** bounds **************************************)

\* status queries of one wait_while_busy call that the log keeps
MaxPolls == 2
\* page addresses given to the page operations are PageOf(0..MaxPageIdx)
MaxPageIdx == 1
\* the leading bytes of a page that the chip's model follows one by one
ViewLen == 10

(************************* program constants *******************************)

\* lib.rs FlashCommands
DeviceReset == 255
JEDECId == 159
ReadStatusRegister == 5
WriteStatusRegister == 1
EnableWrite == 6
DisableWrite == 4
Erase128KBBlock == 216
ReadBBM == 165
ProgramExecute == 16
PageDataRead == 19
\* write.rs names these variants of FlashCommands; lib.rs does not define them
LoadProgramData == 2
RandomLoadProgramData == 132
QuadLoadProgramData == 50
QuadRandomLoadProgramData == 52

PAGE_SIZE_WITH_ECC_BYTES == 2112
PAGES_PER_BLOCK == 64
MAX_BBM_LUT_ENTIRES == 20

\* status.rs register sub-addresses and status bit masks
PROT_SAR_ADDRESS == 160
CONF_SAR_ADDRESS == 176
STATUS_SAR_ADDRESS == 192

BBMLUT_FULL_BIT == 64
ECC1_STATUS_BIT == 32
ECC0_STATUS_BIT == 16
PROGRAM_FAILURE_BIT == 8
ERASE_FAILURE_BIT == 4
WRITE_ENABLE_LATCH_BIT == 2
BUSY_BIT == 1

SRP0_BIT == 128
BP3_BIT == 64
BP2_BIT == 32
BP1_BIT == 16
BP0_BIT == 8
TB_BIT == 4
WPE_BIT == 2
SRP1_BIT == 1

OTP_L_BIT == 128
OTP_E_BIT == 64
SR1_L_BIT == 32
ECC_E_BIT == 16
BUF_BIT == 8

(**************************** helpers **************************************)

\* reg_value & MASK != 0, for a mask of one bit
Bit(b, mask) == (b \div mask) % 2 = 1

B2I(mask, f) == IF f THEN mask ELSE 0

\* u16::to_le_bytes / u16::to_be_bytes
to_le_bytes(p) == <<p % 256, p \div 256>>
to_be_bytes(p) == <<p \div 256, p % 256>>

PageOf(i) == (i * 4660) % 65536
PageAddrs == {PageOf(i) : i \in 0..MaxPageIdx}

QspiErrors == {"Busy", "Address", "Unknown"}

\* FlashCommandError::from_qspi_error
from_qspi_error(err) ==
    CASE err = "Busy" -> "QSPIBusy"
      [] err = "Address" -> "QSPIAddress"
      [] err = "Unknown" -> "QSPIUnknown"

\* the same mapping, written inline in read.rs
read_rs_map_error(err) ==
    CASE err = "Busy" -> "QSPIBusy"
      [] err = "Address" -> "QSPIAddress"
      [] err = "Unknown" -> "QSPIUnknown"

(************************ command descriptors ******************************)

\* QspiWriteCommand: address and data are <<>> for None
WriteCommand(ins, addr, dummy, data, dmode) ==
    [kind |-> "write", instruction |-> ins,
     instruction_mode |-> "SingleChannel", address |-> addr,
     address_mode |-> IF addr = <<>> THEN "None" ELSE "SingleChannel",
     alternative_bytes |-> <<>>, dummy_cycles |-> dummy,
     data |-> data, data_mode |-> dmode, receive_length |-> 0]

\* QspiReadCommand
ReadCommand(ins, addr, amode, alt, dummy, dmode, len) ==
    [kind |-> "transfer", instruction |-> ins,
     instruction_mode |-> "SingleChannel", address |-> addr,
     address_mode |-> amode,
     alternative_bytes |-> alt, dummy_cycles |-> dummy,
     data |-> <<>>, data_mode |-> dmode, receive_length |-> len]

RegisterReadCommand(sar) ==
    ReadCommand(ReadStatusRegister, <<>>, "None", <<sar>>, 0, "SingleChannel", 1)

\* fault: the payload with the value before the sub-address
RegisterWriteCommand_value_first(sar, value) ==
    WriteCommand(WriteStatusRegister, <<>>, 0, <<value, sar>>, "SingleChannel")
RegisterWriteCommand(sar, value) ==
    WriteCommand(WriteStatusRegister, <<>>, 0, <<sar, value>>, "SingleChannel")

\* fault: into_write_mode sending the disable-write opcode
EnableWriteCommand_disable == WriteCommand(DisableWrite, <<>>, 0, <<>>, "None")
EnableWriteCommand == WriteCommand(EnableWrite, <<>>, 0, <<>>, "None")
DisableWriteCommand == WriteCommand(DisableWrite, <<>>, 0, <<>>, "None")
DeviceResetCommand == WriteCommand(DeviceReset, <<>>, 0, <<>>, "None")
JEDECIdCommand ==
    ReadCommand(JEDECId, <<>>, "None", <<>>, 8, "SingleChannel", 3)
EraseCommand(page_address) ==
    WriteCommand(Erase128KBBlock, <<>>, 8, to_le_bytes(page_address), "SingleChannel")
ProgramExecuteCommand(page_address) ==
    WriteCommand(ProgramExecute, <<>>, 8, to_le_bytes(page_address), "SingleChannel")
PageDataReadCommand(page_address) ==
    WriteCommand(PageDataRead, <<>>, 8, to_be_bytes(page_address), "SingleChannel")
ReadBBMCommand ==
    ReadCommand(ReadBBM, <<>>, "None", <<>>, 8, "SingleChannel", MAX_BBM_LUT_ENTIRES * 4)

(******************************* chip ***************************************)

\* The chip is the driver's environment.  Its state: the status bits the
\* driver reads, the operation in progress, the protection and configuration
\* registers and the bad-block table.
\* the table the chip holds: slot 2 links block 0x0201 to block 0x0403 (in
\* either byte order both bytes of each address are non-zero)
LutBytes ==
    [i \in 1..(MAX_BBM_LUT_ENTIRES * 4) |->
        IF i = 9 THEN 1
        ELSE IF i = 10 THEN 2
        ELSE IF i = 11 THEN 3
        ELSE IF i = 12 THEN 4
        ELSE 0]

JedecBytes == <<239, 170, 33>>

\* The array and the data buffer.  A page's or the buffer's contents are its
\* first ViewLen bytes followed by the value every later byte has.  The chip
\* follows the pages in DOMAIN d.mem; a chip that follows no page has <<>> for
\* the buffer and leaves the array out.
Erased == [i \in 1..(ViewLen + 1) |-> 255]
\* a page programmed with zeros some time before
Stale == [i \in 1..(ViewLen + 1) |-> 0]

RECURSIVE BitAnd(_, _)
BitAnd(a, b) ==
    IF a = 0 \/ b = 0 THEN 0
    ELSE 2 * BitAnd(a \div 2, b \div 2) + (a % 2) * (b % 2)

\* programming clears bits, it never sets them
ProgramInto(page, buffer) == [i \in 1..(ViewLen + 1) |-> BitAnd(page[i], buffer[i])]

\* a load puts the bytes at the column address; the load commands that are
\* not "random" set the rest of the buffer to 0xFF
LoadInto(buffer, column, bytes, clear) ==
    [i \in 1..(ViewLen + 1) |->
        IF i > column /\ i <= column + Len(bytes) /\ i <= ViewLen THEN bytes[i - column]
        ELSE IF clear THEN 255 ELSE buffer[i]]

\* the order in which the chip takes the two bytes of a page address
ByteOrders == {"msb_first", "lsb_first"}
PageFromBytes(order, data) ==
    IF order = "msb_first" THEN data[1] * 256 + data[2] ELSE data[2] * 256 + data[1]

\* the page a command addresses (0 when the chip follows no page)
Target(d, data) == IF DOMAIN d.mem = {} THEN 0 ELSE PageFromBytes(d.order, data)

\* after power-up: idle, write-enable latch clear
DevInit ==
    [busy |-> FALSE, wel |-> FALSE, efail |-> FALSE, pfail |-> FALSE,
     pending |-> "none", prot |-> 130, conf |-> 24,
     order |-> "msb_first", page |-> 0, buf |-> <<>>, mem |-> <<>>]

\* the same chip following the pages in `pages`, all programmed before; the
\* buffer holds page 0 after power-up
DevFollowing(order, pages) ==
    [DevInit EXCEPT !.order = order, !.buf = Stale, !.mem = [q \in pages |-> Stale]]

\* the status byte the chip returns for sub-address 0xC0
StatusByte(d) ==
    B2I(BUSY_BIT, d.busy) + B2I(WRITE_ENABLE_LATCH_BIT, d.wel)
    + B2I(ERASE_FAILURE_BIT, d.efail) + B2I(PROGRAM_FAILURE_BIT, d.pfail)

\* what a delivered write command does to the chip: a busy chip ignores
\* every command but the reset; erase and program need the write-enable latch
DevWrite(d, cmd) ==
    LET ins == cmd.instruction IN
    IF ins = DeviceReset THEN
        [d EXCEPT !.busy = TRUE, !.pending = "reset", !.wel = FALSE,
                  !.efail = FALSE, !.pfail = FALSE]
    ELSE IF d.busy THEN d
    ELSE IF ins = EnableWrite THEN [d EXCEPT !.wel = TRUE]
    ELSE IF ins = DisableWrite THEN [d EXCEPT !.wel = FALSE]
    ELSE IF ins = Erase128KBBlock THEN
        IF d.wel THEN [d EXCEPT !.busy = TRUE, !.pending = "erase",
                                !.page = Target(d, cmd.data)]
        ELSE d
    ELSE IF ins = ProgramExecute THEN
        IF d.wel THEN [d EXCEPT !.busy = TRUE, !.pending = "program",
                                !.page = Target(d, cmd.data)]
        ELSE d
    ELSE IF ins = PageDataRead THEN
        [d EXCEPT !.busy = TRUE, !.pending = "read", !.page = Target(d, cmd.data)]
    ELSE IF ins \in {LoadProgramData, RandomLoadProgramData,
                     QuadLoadProgramData, QuadRandomLoadProgramData} THEN
        IF d.wel /\ DOMAIN d.mem # {}
        THEN [d EXCEPT !.buf = LoadInto(d.buf, cmd.address[1], cmd.data,
                                 ins \in {LoadProgramData, QuadLoadProgramData})]
        ELSE d
    ELSE IF ins = WriteStatusRegister THEN
        IF cmd.data[1] = PROT_SAR_ADDRESS THEN [d EXCEPT !.prot = cmd.data[2]]
        ELSE IF cmd.data[1] = CONF_SAR_ADDRESS THEN [d EXCEPT !.conf = cmd.data[2]]
        ELSE d
    ELSE d

\* the bytes the chip sends back for a read command
DevRead(d, cmd) ==
    LET ins == cmd.instruction IN
    IF ins = ReadStatusRegister THEN
        IF cmd.alternative_bytes = <<STATUS_SAR_ADDRESS>> THEN <<StatusByte(d)>>
        ELSE IF cmd.alternative_bytes = <<PROT_SAR_ADDRESS>> THEN <<d.prot>>
        ELSE <<d.conf>>
    ELSE IF ins = JEDECId THEN JedecBytes
    ELSE IF ins = ReadBBM THEN LutBytes
    ELSE d.buf

\* what the operation that ends leaves in the array and the buffer: an erase
\* sets every page of the block to 0xFF, a program clears the bits of its page
\* that are clear in the buffer, a page read copies its page into the buffer;
\* an erase or a program that fails leaves the array as it was
ArrayAfter(d, failed) ==
    IF d.page \notin DOMAIN d.mem THEN d
    ELSE IF d.pending = "erase" /\ ~failed THEN
        [d EXCEPT !.mem = [q \in DOMAIN d.mem |->
                              IF q \div PAGES_PER_BLOCK = d.page \div PAGES_PER_BLOCK
                              THEN Erased ELSE d.mem[q]]]
    ELSE IF d.pending = "program" /\ ~failed THEN
        [d EXCEPT !.mem[d.page] = ProgramInto(d.mem[d.page], d.buf)]
    ELSE IF d.pending = "read" THEN [d EXCEPT !.buf = d.mem[d.page]]
    ELSE d

\* the operation in progress ends; a failing erase sets erase_failure, a
\* failing program sets write_failure, both clear the write-enable latch
Complete(d, failed) ==
    IF ~d.busy THEN d
    ELSE IF d.pending = "erase" THEN
        [ArrayAfter(d, failed) EXCEPT !.busy = FALSE, !.pending = "none", !.page = 0,
                                      !.wel = FALSE, !.efail = failed]
    ELSE IF d.pending = "program" THEN
        [ArrayAfter(d, failed) EXCEPT !.busy = FALSE, !.pending = "none", !.page = 0,
                                      !.wel = FALSE, !.pfail = failed]
    ELSE [ArrayAfter(d, failed) EXCEPT !.busy = FALSE, !.pending = "none", !.page = 0]


(***************************** transport ***********************************)

QspiResults == {"Ok"} \cup QspiErrors

\* One call of Qspi::write or Qspi::transfer on chip d with outcome res ("Ok"
\* or a QspiError).  A failed call delivers nothing to the chip.
Xfer(d, cmd, res) ==
    LET good == res = "Ok" IN
    [dev |-> IF good /\ cmd.kind = "write" THEN DevWrite(d, cmd) ELSE d,
     ok |-> good, err |-> res,
     rx |-> IF good /\ cmd.kind = "transfer" THEN DevRead(d, cmd) ELSE <<>>]

\* what the bus log keeps of a transport call: the command, the outcome, the
\* bytes received, and the chip's busy bit and write-enable latch at the call
BusEntry(d, cmd, t) ==
    [cmd |-> cmd, res |-> t.err, rx |-> t.rx, busy |-> d.busy, wel |-> d.wel]

(*************************** register model ********************************)

\* fault: from_bits with its two arguments the other way round
ECCStatus_from_bits_swapped(ecc_0, ecc_1) ==
    IF ecc_0 THEN (IF ecc_1 THEN "MultiPageError" ELSE "SinglePageError")
    ELSE (IF ecc_1 THEN "CorrectedSuccessfully" ELSE "Successful")

\* ECCStatus::from_bits
ECCStatus_from_bits(ecc_0, ecc_1) ==
    IF ecc_1 THEN (IF ecc_0 THEN "MultiPageError" ELSE "SinglePageError")
    ELSE (IF ecc_0 THEN "CorrectedSuccessfully" ELSE "Successful")

DecodeStatusRegister(reg_value) ==
    [bbm_lut_full |-> Bit(reg_value, BBMLUT_FULL_BIT),
     ecc_status |-> ECCStatus_from_bits(Bit(reg_value, ECC0_STATUS_BIT),
                                        Bit(reg_value, ECC1_STATUS_BIT)),
     write_failure |-> Bit(reg_value, PROGRAM_FAILURE_BIT),
     erase_failure |-> Bit(reg_value, ERASE_FAILURE_BIT),
     write_enable_latch |-> Bit(reg_value, WRITE_ENABLE_LATCH_BIT),
     device_busy |-> Bit(reg_value, BUSY_BIT)]

DecodeProtectionRegister(reg_value) ==
    [srp0 |-> Bit(reg_value, SRP0_BIT), bp3 |-> Bit(reg_value, BP3_BIT),
     bp2 |-> Bit(reg_value, BP2_BIT), bp1 |-> Bit(reg_value, BP1_BIT),
     bp0 |-> Bit(reg_value, BP0_BIT), tb |-> Bit(reg_value, TB_BIT),
     wpe |-> Bit(reg_value, WPE_BIT), srp1 |-> Bit(reg_value, SRP1_BIT)]

DecodeConfigurationRegister(reg_value) ==
    [otp_l |-> Bit(reg_value, OTP_L_BIT), otp_e |-> Bit(reg_value, OTP_E_BIT),
     sr1_l |-> Bit(reg_value, SR1_L_BIT), ecc_e |-> Bit(reg_value, ECC_E_BIT),
     buf |-> Bit(reg_value, BUF_BIT)]

\* fault: to_u8 putting tb on the bit of wpe
ProtectionRegister_to_u8_tb_on_wpe(r) ==
    (B2I(SRP0_BIT, r.srp0) + B2I(BP3_BIT, r.bp3) + B2I(BP2_BIT, r.bp2)
     + B2I(BP1_BIT, r.bp1) + B2I(BP0_BIT, r.bp0) + B2I(WPE_BIT, r.tb)
     + B2I(WPE_BIT, r.wpe) + B2I(SRP1_BIT, r.srp1)) % 256

\* fault: to_u8 adding the mask of srp0 for srp1 as well
ProtectionRegister_sum_srp1_on_srp0(r) ==
    B2I(SRP0_BIT, r.srp0) + B2I(BP3_BIT, r.bp3) + B2I(BP2_BIT, r.bp2)
    + B2I(BP1_BIT, r.bp1) + B2I(BP0_BIT, r.bp0) + B2I(TB_BIT, r.tb)
    + B2I(WPE_BIT, r.wpe) + B2I(SRP0_BIT, r.srp1)

\* the sum ProtectionRegister::to_u8 adds up, as a number
ProtectionRegister_sum(r) ==
    B2I(SRP0_BIT, r.srp0) + B2I(BP3_BIT, r.bp3) + B2I(BP2_BIT, r.bp2)
    + B2I(BP1_BIT, r.bp1) + B2I(BP0_BIT, r.bp0) + B2I(TB_BIT, r.tb)
    + B2I(WPE_BIT, r.wpe) + B2I(SRP1_BIT, r.srp1)

\* ProtectionRegister::to_u8 (u8 arithmetic)
ProtectionRegister_to_u8(r) == ProtectionRegister_sum(r) % 256

\* fault: to_u8 leaving out buf
ConfigurationRegister_to_u8_without_buf(r) ==
    (B2I(OTP_L_BIT, r.otp_l) + B2I(OTP_E_BIT, r.otp_e) + B2I(SR1_L_BIT, r.sr1_l)
     + B2I(ECC_E_BIT, r.ecc_e)) % 256

\* the sum ConfigurationRegister::to_u8 adds up, as a number
ConfigurationRegister_sum(r) ==
    B2I(OTP_L_BIT, r.otp_l) + B2I(OTP_E_BIT, r.otp_e) + B2I(SR1_L_BIT, r.sr1_l)
    + B2I(ECC_E_BIT, r.ecc_e) + B2I(BUF_BIT, r.buf)

\* ConfigurationRegister::to_u8
ConfigurationRegister_to_u8(r) == ConfigurationRegister_sum(r) % 256

(***************************************************************************)
(* The driver's functions.  A function runs as a sequence of transport     *)
(* calls; between two of them the chip may finish what it is doing.  Each  *)
(* function is given as what it does with the outcome t = [ok, err, rx] of *)
(* the transport call it made at position `at`: it returns, or it goes on  *)
(* to its next transport call.  o is the record of the call: its name, its *)
(* arguments by name (<<>> when it has none), the mode of the handle it was *)
(* called on, its locals.                                                  *)
(***************************************************************************)

\* Result<_, FlashCommandError>: val is the value of an Ok that carries data
Ok(val) == [ok |-> TRUE, err |-> "", val |-> val]
Err(e) == [ok |-> FALSE, err |-> e, val |-> <<>>]
Running == [ok |-> FALSE, err |-> "running", val |-> <<>>]

\* the function returns; h is the handle the caller holds afterwards
\* ("None": the handle was moved into the call and is not given back)
Return(result, h) == [pc |-> "idle", result |-> result, handle |-> h, local |-> <<>>]

\* the function goes on to the transport call at position `at`
Goto(at, o) == [pc |-> at, result |-> Running, handle |-> o.mode, local |-> o.local]

\* status.rs: the three register reads, after their transfer
read_status_register(t) ==
    IF ~t.ok THEN [ok |-> FALSE, err |-> from_qspi_error(t.err),
                   reg |-> DecodeStatusRegister(0)]
    ELSE [ok |-> TRUE, err |-> "", reg |-> DecodeStatusRegister(t.rx[1])]

read_protection_register(t) ==
    IF ~t.ok THEN [ok |-> FALSE, err |-> from_qspi_error(t.err),
                   reg |-> DecodeProtectionRegister(0)]
    ELSE [ok |-> TRUE, err |-> "", reg |-> DecodeProtectionRegister(t.rx[1])]

read_configuration_register(t) ==
    IF ~t.ok THEN [ok |-> FALSE, err |-> from_qspi_error(t.err),
                   reg |-> DecodeConfigurationRegister(0)]
    ELSE [ok |-> TRUE, err |-> "", reg |-> DecodeConfigurationRegister(t.rx[1])]

\* fault: check_busy that never reports busy
check_busy_never_busy(t) ==
    LET r == read_status_register(t) IN
    IF r.ok THEN [ok |-> TRUE, err |-> "", busy |-> FALSE]
    ELSE [ok |-> FALSE, err |-> r.err, busy |-> FALSE]

\* lib.rs check_busy
check_busy(t) ==
    LET r == read_status_register(t) IN
    IF r.ok THEN [ok |-> TRUE, err |-> "", busy |-> r.reg.device_busy]
    ELSE [ok |-> FALSE, err |-> r.err, busy |-> FALSE]

\* lib.rs check_write_or_erase_failure
check_write_or_erase_failure(t) ==
    LET r == read_status_register(t) IN
    IF r.ok THEN Ok(<<r.reg.erase_failure \/ r.reg.write_failure>>)
    ELSE Err(r.err)

(************************ mode transitions (write.rs) **********************)

\* impl W25N01GV<_, ReadMode>; takes self
into_write_mode(at, t, o) ==
    IF at = "check_busy" THEN
        LET b == check_busy(t) IN
        IF ~b.ok THEN Return(Err(b.err), "None")
        ELSE IF b.busy THEN Return(Err("DeviceBusy"), "None")
        ELSE Goto("command", o)
    ELSE IF ~t.ok THEN Return(Err(from_qspi_error(t.err)), "None")
    ELSE Return(Ok(<<>>), "Write")

\* impl W25N01GV<_, WriteMode>; takes self
into_read_mode(at, t, o) ==
    IF at = "check_busy" THEN
        LET b == check_busy(t) IN
        IF ~b.ok THEN Return(Err(b.err), "None")
        ELSE IF b.busy THEN Return(Err("DeviceBusy"), "None")
        ELSE Goto("command", o)
    ELSE IF ~t.ok THEN Return(Err(from_qspi_error(t.err)), "None")
    ELSE Return(Ok(<<>>), "Read")

\* fault: erase_128kb_block testing write_failure in place of erase_failure
erase_128kb_block_write_failure(at, t, o) ==
    IF at = "check_busy" THEN
        LET b == check_busy(t) IN
        IF ~b.ok THEN Return(Err(b.err), "None")
        ELSE IF b.busy THEN Return(Err("DeviceBusy"), "None")
        ELSE Goto("command", o)
    ELSE IF at = "command" THEN
        IF ~t.ok THEN Return(Err(from_qspi_error(t.err)), "None")
        ELSE Goto("status", o)
    ELSE LET r == read_status_register(t) IN
         IF r.ok /\ r.reg.write_failure THEN Return(Err("WriteFailure"), "None")
         ELSE Return(Ok(<<>>), "Read")

\* fault: erase_128kb_block querying the status once more when the chip is
\* still busy after the command
erase_128kb_block_polls(at, t, o) ==
    IF at = "check_busy" THEN
        LET b == check_busy(t) IN
        IF ~b.ok THEN Return(Err(b.err), "None")
        ELSE IF b.busy THEN Return(Err("DeviceBusy"), "None")
        ELSE Goto("command", o)
    ELSE IF at = "command" THEN
        IF ~t.ok THEN Return(Err(from_qspi_error(t.err)), "None")
        ELSE Goto("status", o)
    ELSE LET r == read_status_register(t) IN
         IF r.ok /\ r.reg.erase_failure THEN Return(Err("WriteFailure"), "None")
         ELSE IF at = "status" /\ r.ok /\ r.reg.device_busy THEN Goto("loop", o)
         ELSE Return(Ok(<<>>), "Read")
\* takes self; "status" is the read_status_register that follows the command
erase_128kb_block(at, t, o) ==
    IF at = "check_busy" THEN
        LET b == check_busy(t) IN
        IF ~b.ok THEN Return(Err(b.err), "None")
        ELSE IF b.busy THEN Return(Err("DeviceBusy"), "None")
        ELSE Goto("command", o)
    ELSE IF at = "command" THEN
        IF ~t.ok THEN Return(Err(from_qspi_error(t.err)), "None")
        ELSE Goto("status", o)
    ELSE LET r == read_status_register(t) IN
         IF r.ok /\ r.reg.erase_failure THEN Return(Err("WriteFailure"), "None")
         ELSE Return(Ok(<<>>), "Read")

write_data_buffer_to_memory(at, t, o) ==
    IF at = "check_busy" THEN
        LET b == check_busy(t) IN
        IF ~b.ok THEN Return(Err(b.err), "None")
        ELSE IF b.busy THEN Return(Err("DeviceBusy"), "None")
        ELSE Goto("command", o)
    ELSE IF at = "command" THEN
        IF ~t.ok THEN Return(Err(from_qspi_error(t.err)), "None")
        ELSE Goto("status", o)
    ELSE LET r == read_status_register(t) IN
         IF r.ok /\ r.reg.erase_failure THEN Return(Err("WriteFailure"), "None")
         ELSE Return(Ok(<<>>), "Read")

\* takes &self
quad_load_to_data_buffer(at, t, o) ==
    IF at = "check_busy" THEN
        LET b == check_busy(t) IN
        IF ~b.ok THEN Return(Err(b.err), o.mode)
        ELSE IF b.busy THEN Return(Err("DeviceBusy"), o.mode)
        ELSE Goto("command", o)
    ELSE IF ~t.ok THEN Return(Err(from_qspi_error(t.err)), o.mode)
    ELSE Return(Ok(<<>>), o.mode)

single_load_to_data_buffer(at, t, o) ==
    IF at = "check_busy" THEN
        LET b == check_busy(t) IN
        IF ~b.ok THEN Return(Err(b.err), o.mode)
        ELSE IF b.busy THEN Return(Err("DeviceBusy"), o.mode)
        ELSE Goto("command", o)
    ELSE IF ~t.ok THEN Return(Err(from_qspi_error(t.err)), o.mode)
    ELSE Return(Ok(<<>>), o.mode)

\* fault: the random-load opcode chosen when clear_unwritten_bytes is set
LoadCommand_random_when_clear(quad, bytes, starting_address, clear_unwritten_bytes) ==
    [WriteCommand(
        IF quad
        THEN (IF clear_unwritten_bytes THEN QuadRandomLoadProgramData
              ELSE QuadLoadProgramData)
        ELSE (IF clear_unwritten_bytes THEN RandomLoadProgramData
              ELSE LoadProgramData),
        <<starting_address>>, 0, bytes,
        IF quad THEN "QuadChannel" ELSE "SingleChannel")
     EXCEPT !.address_mode = "SingleChannel"]
LoadCommand(quad, bytes, starting_address, clear_unwritten_bytes) ==
    [WriteCommand(
        IF quad
        THEN (IF clear_unwritten_bytes THEN QuadLoadProgramData
              ELSE QuadRandomLoadProgramData)
        ELSE (IF clear_unwritten_bytes THEN LoadProgramData
              ELSE RandomLoadProgramData),
        <<starting_address>>, 0, bytes,
        IF quad THEN "QuadChannel" ELSE "SingleChannel")
     EXCEPT !.address_mode = "SingleChannel"]

(********************* mode-independent operations *************************)

\* fault: reset_device sending its command whatever check_busy says
reset_device_ungated(at, t, o) ==
    IF at = "check_busy" THEN
        LET b == check_busy(t) IN
        IF ~b.ok THEN Return(Err(b.err), o.mode)
        ELSE Goto("command", o)
    ELSE IF ~t.ok THEN Return(Err(from_qspi_error(t.err)), o.mode)
    ELSE Return(Ok(<<>>), o.mode)

\* lib.rs; takes &self
reset_device(at, t, o) ==
    IF at = "check_busy" THEN
        LET b == check_busy(t) IN
        IF ~b.ok THEN Return(Err(b.err), o.mode)
        ELSE IF b.busy THEN Return(Err("DeviceBusy"), o.mode)
        ELSE Goto("command", o)
    ELSE IF ~t.ok THEN Return(Err(from_qspi_error(t.err)), o.mode)
    ELSE Return(Ok(<<>>), o.mode)

get_jedec_id(at, t, o) ==
    IF at = "check_busy" THEN
        LET b == check_busy(t) IN
        IF ~b.ok THEN Return(Err(b.err), o.mode)
        ELSE IF b.busy THEN Return(Err("DeviceBusy"), o.mode)
        ELSE Goto("command", o)
    ELSE IF ~t.ok THEN Return(Err(from_qspi_error(t.err)), o.mode)
    ELSE Return(Ok(t.rx), o.mode)

\* the back edge of `loop { .. }`: the turns of the loop are told apart as
\* even ("check_busy") and odd ("loop"), so that a turn that changes nothing
\* else is still a step
NextTurn(at) == IF at = "check_busy" THEN "loop" ELSE "check_busy"

\* fault: wait_while_busy going round again when a status query fails
wait_while_busy_retry(at, t, o) ==
    LET b == check_busy(t) IN
    IF b.ok THEN (IF ~b.busy THEN Return(Ok(<<>>), o.mode) ELSE Goto(NextTurn(at), o))
    ELSE Goto(NextTurn(at), o)

\* fault: wait_while_busy asking once more after the first query found the
\* chip idle
wait_while_busy_once_more(at, t, o) ==
    LET b == check_busy(t) IN
    IF b.ok THEN
        IF b.busy THEN Goto(NextTurn(at), o)
        ELSE IF at = "check_busy" THEN Goto(NextTurn(at), o)
        ELSE Return(Ok(<<>>), o.mode)
    ELSE Return(Ok(<<>>), o.mode)

\* fault: the loop without its break on Ok(false)
wait_while_busy_no_break(at, t, o) ==
    LET b == check_busy(t) IN
    IF b.ok THEN Goto(NextTurn(at), o)
    ELSE Return(Ok(<<>>), o.mode)

\* the loop: every turn is one check_busy
wait_while_busy(at, t, o) ==
    LET b == check_busy(t) IN
    IF b.ok THEN (IF ~b.busy THEN Return(Ok(<<>>), o.mode) ELSE Goto(NextTurn(at), o))
    ELSE Return(Ok(<<>>), o.mode)

\* status.rs; the positions of write_protection_register and of
\* write_configuration_register are "write_check_busy" and "write_command"
write_protection_register(at, t, o) ==
    IF at = "write_check_busy" THEN
        LET b == check_busy(t) IN
        IF ~b.ok THEN Return(Err(b.err), o.mode)
        ELSE IF b.busy THEN Return(Err("DeviceBusy"), o.mode)
        ELSE Goto("write_command", o)
    ELSE IF ~t.ok THEN Return(Err(from_qspi_error(t.err)), o.mode)
    ELSE Return(Ok(<<>>), o.mode)

write_configuration_register(at, t, o) ==
    IF at = "write_check_busy" THEN
        LET b == check_busy(t) IN
        IF ~b.ok THEN Return(Err(b.err), o.mode)
        ELSE IF b.busy THEN Return(Err("DeviceBusy"), o.mode)
        ELSE Goto("write_command", o)
    ELSE IF ~t.ok THEN Return(Err(from_qspi_error(t.err)), o.mode)
    ELSE Return(Ok(<<>>), o.mode)

\* fault: set_write_protection writing a register built from its arguments
\* alone, the other fields clear
set_write_protection_fresh(at, t, o) ==
    IF at = "check_busy" THEN
        LET b == check_busy(t) IN
        IF ~b.ok THEN Return(Err(b.err), o.mode)
        ELSE IF b.busy THEN Return(Err("DeviceBusy"), o.mode)
        ELSE Goto("read_register", o)
    ELSE IF at = "read_register" THEN
        LET r == read_protection_register(t) IN
        IF ~r.ok THEN Return(Err(r.err), o.mode)
        ELSE [Goto("write_check_busy", o) EXCEPT
                 !.local = <<[DecodeProtectionRegister(0) EXCEPT
                                  !.tb = o.arg.tb, !.bp3 = o.arg.bp3,
                                  !.bp2 = o.arg.bp2, !.bp1 = o.arg.bp1,
                                  !.bp0 = o.arg.bp0]>>]
    ELSE write_protection_register(at, t, o)
\* write.rs; arg is <<tb, bp3, bp2, bp1, bp0>>; the register read and changed
\* is the local handed to write_protection_register
set_write_protection(at, t, o) ==
    IF at = "check_busy" THEN
        LET b == check_busy(t) IN
        IF ~b.ok THEN Return(Err(b.err), o.mode)
        ELSE IF b.busy THEN Return(Err("DeviceBusy"), o.mode)
        ELSE Goto("read_register", o)
    ELSE IF at = "read_register" THEN
        LET r == read_protection_register(t) IN
        IF ~r.ok THEN Return(Err(r.err), o.mode)
        ELSE [Goto("write_check_busy", o) EXCEPT
                 !.local = <<[r.reg EXCEPT !.tb = o.arg.tb, !.bp3 = o.arg.bp3,
                                           !.bp2 = o.arg.bp2, !.bp1 = o.arg.bp1,
                                           !.bp0 = o.arg.bp0]>>]
    ELSE write_protection_register(at, t, o)

\* fault: set_continuous_read_mode setting buf for continuous read
set_continuous_read_mode_buf_set(at, t, o) ==
    IF at = "check_busy" THEN
        LET b == check_busy(t) IN
        IF ~b.ok THEN Return(Err(b.err), o.mode)
        ELSE IF b.busy THEN Return(Err("DeviceBusy"), o.mode)
        ELSE Goto("read_register", o)
    ELSE IF at = "read_register" THEN
        LET r == read_configuration_register(t) IN
        IF ~r.ok THEN Return(Err(r.err), o.mode)
        ELSE [Goto("write_check_busy", o) EXCEPT
                 !.local = <<[r.reg EXCEPT !.buf = o.arg.continuous_read]>>]
    ELSE write_configuration_register(at, t, o)
\* arg is <<continuous_read>>
set_continuous_read_mode(at, t, o) ==
    IF at = "check_busy" THEN
        LET b == check_busy(t) IN
        IF ~b.ok THEN Return(Err(b.err), o.mode)
        ELSE IF b.busy THEN Return(Err("DeviceBusy"), o.mode)
        ELSE Goto("read_register", o)
    ELSE IF at = "read_register" THEN
        LET r == read_configuration_register(t) IN
        IF ~r.ok THEN Return(Err(r.err), o.mode)
        ELSE [Goto("write_check_busy", o) EXCEPT
                 !.local = <<[r.reg EXCEPT !.buf = ~o.arg.continuous_read]>>]
    ELSE write_configuration_register(at, t, o)

(***************************** read.rs *************************************)

ReadMethods == {"FastRead", "DualFastRead", "QuadFastRead",
                "FastReadDualIO", "FastReadQuadIO"}

ReadMethod_opcode(method) ==
    CASE method = "FastRead" -> 11
      [] method = "DualFastRead" -> 59
      [] method = "QuadFastRead" -> 107
      [] method = "FastReadDualIO" -> 187
      [] method = "FastReadQuadIO" -> 235

\* fault: the two I/O variants given the dummy cycles of the others
dummy_cycles_all_eight(method) == 8
dummy_cycles(method) ==
    CASE method = "FastRead" -> 8
      [] method = "DualFastRead" -> 8
      [] method = "QuadFastRead" -> 8
      [] method = "FastReadDualIO" -> 4
      [] method = "FastReadQuadIO" -> 4

address_mode(method) ==
    CASE method = "FastRead" -> "SingleChannel"
      [] method = "DualFastRead" -> "SingleChannel"
      [] method = "QuadFastRead" -> "SingleChannel"
      [] method = "FastReadDualIO" -> "DualChannel"
      [] method = "FastReadQuadIO" -> "QuadChannel"

data_mode(method) ==
    CASE method = "FastRead" -> "SingleChannel"
      [] method = "DualFastRead" -> "DualChannel"
      [] method = "QuadFastRead" -> "QuadChannel"
      [] method = "FastReadDualIO" -> "DualChannel"
      [] method = "FastReadQuadIO" -> "QuadChannel"

FastReadCommand(method) ==
    ReadCommand(ReadMethod_opcode(method), <<0>>, address_mode(method), <<>>,
                dummy_cycles(method), data_mode(method), PAGE_SIZE_WITH_ECC_BYTES)

\* fault: read_memory_to_data_buffer sending its command to a busy chip
read_memory_to_data_buffer_ungated(at, t, o) ==
    IF at = "check_busy" THEN
        LET b == check_busy(t) IN
        IF ~b.ok THEN Return(Err(b.err), o.mode)
        ELSE Goto("command", o)
    ELSE IF ~t.ok THEN Return(Err(read_rs_map_error(t.err)), o.mode)
    ELSE Return(Ok(<<>>), o.mode)
read_memory_to_data_buffer(at, t, o) ==
    IF at = "check_busy" THEN
        LET b == check_busy(t) IN
        IF ~b.ok THEN Return(Err(b.err), o.mode)
        ELSE IF b.busy THEN Return(Err("DeviceBusy"), o.mode)
        ELSE Goto("command", o)
    ELSE IF ~t.ok THEN Return(Err(read_rs_map_error(t.err)), o.mode)
    ELSE Return(Ok(<<>>), o.mode)

\* fault: read_data_buffer passing its command a second time after a failure
read_data_buffer_retry(at, t, o) ==
    IF at = "check_busy" THEN
        LET b == check_busy(t) IN
        IF ~b.ok THEN Return(Err(b.err), o.mode)
        ELSE IF b.busy THEN Return(Err("DeviceBusy"), o.mode)
        ELSE Goto("command", o)
    ELSE IF ~t.ok /\ at = "command" THEN Goto("command_again", o)
    ELSE IF ~t.ok THEN Return(Err(read_rs_map_error(t.err)), o.mode)
    ELSE Return(Ok(t.rx), o.mode)
read_data_buffer(at, t, o) ==
    IF at = "check_busy" THEN
        LET b == check_busy(t) IN
        IF ~b.ok THEN Return(Err(b.err), o.mode)
        ELSE IF b.busy THEN Return(Err("DeviceBusy"), o.mode)
        ELSE Goto("command", o)
    ELSE IF ~t.ok THEN Return(Err(read_rs_map_error(t.err)), o.mode)
    ELSE Return(Ok(t.rx), o.mode)

\* `a as u16 + (b as u16) << 8`: in Rust + binds tighter than <<
ShlU16(x, n) == (x * (2 ^ n)) % 65536

\* fault: the decode loop without its test for an empty slot
DecodeLinks_all_present(buffer) ==
    [link_index \in 1..MAX_BBM_LUT_ENTIRES |->
        LET k == (link_index - 1) * 4
            lba == ShlU16(buffer[k + 1] + buffer[k + 2], 8)
            pba == ShlU16(buffer[k + 3] + buffer[k + 4], 8)
        IN <<lba, pba>>]

\* the bits `<< 8` shifts by in the decode loop
LINK_SHIFT == 8

\* the u16 additions of the decode loop, as numbers: for each link the sum
\* that makes lba and the sum that makes pba, before the shift
LinkSums(buffer) ==
    [link_index \in 1..MAX_BBM_LUT_ENTIRES |->
        LET k == (link_index - 1) * 4
        IN <<buffer[k + 1] + buffer[k + 2], buffer[k + 3] + buffer[k + 4]>>]

\* the positions of the buffer the decode loop reads, counted from 0
LinkIndexes ==
    {link_index * 4 + j : link_index \in 0..(MAX_BBM_LUT_ENTIRES - 1), j \in 0..3}

DecodeLinks(buffer) ==
    [link_index \in 1..MAX_BBM_LUT_ENTIRES |->
        LET lba == ShlU16(LinkSums(buffer)[link_index][1], LINK_SHIFT)
            pba == ShlU16(LinkSums(buffer)[link_index][2], LINK_SHIFT)
        IN IF lba # 0 \/ pba # 0 THEN <<lba, pba>> ELSE <<>>]

read_bbm_lookup_table(at, t, o) ==
    IF at = "check_busy" THEN
        LET b == check_busy(t) IN
        IF ~b.ok THEN Return(Err(b.err), o.mode)
        ELSE IF b.busy THEN Return(Err("DeviceBusy"), o.mode)
        ELSE Goto("command", o)
    ELSE IF ~t.ok THEN Return(Err(read_rs_map_error(t.err)), o.mode)
    ELSE Return(Ok(DecodeLinks(t.rx)), o.mode)

(*************************** the state machine ******************************)

\* the transport call a function makes at position `at`
CommandAt(o, at) ==
    IF at \in {"check_busy", "loop", "status", "write_check_busy"}
    THEN RegisterReadCommand(STATUS_SAR_ADDRESS)
    ELSE CASE o.name = "into_write_mode" -> EnableWriteCommand
           [] o.name = "into_read_mode" -> DisableWriteCommand
           [] o.name = "erase_128kb_block" -> EraseCommand(o.arg.page_address)
           [] o.name = "write_data_buffer_to_memory" -> ProgramExecuteCommand(o.arg.page_address)
           [] o.name = "quad_load_to_data_buffer" ->
                  LoadCommand(TRUE, o.arg.bytes, o.arg.starting_address,
                              o.arg.clear_unwritten_bytes)
           [] o.name = "single_load_to_data_buffer" ->
                  LoadCommand(FALSE, o.arg.bytes, o.arg.starting_address,
                              o.arg.clear_unwritten_bytes)
           [] o.name = "reset_device" -> DeviceResetCommand
           [] o.name = "get_jedec_id" -> JEDECIdCommand
           [] o.name = "read_memory_to_data_buffer" -> PageDataReadCommand(o.arg.page_address)
           [] o.name = "read_data_buffer" -> FastReadCommand(o.arg.method)
           [] o.name = "read_bbm_lookup_table" -> ReadBBMCommand
           [] o.name \in {"read_status_register", "check_write_or_erase_failure"} ->
                  RegisterReadCommand(STATUS_SAR_ADDRESS)
           [] o.name = "read_protection_register" ->
                  RegisterReadCommand(PROT_SAR_ADDRESS)
           [] o.name = "read_configuration_register" ->
                  RegisterReadCommand(CONF_SAR_ADDRESS)
           [] o.name \in {"write_protection_register", "set_write_protection"} ->
                  IF at = "read_register" THEN RegisterReadCommand(PROT_SAR_ADDRESS)
                  ELSE RegisterWriteCommand(PROT_SAR_ADDRESS,
                                            ProtectionRegister_to_u8(o.local[1]))
           [] o.name \in {"write_configuration_register", "set_continuous_read_mode"} ->
                  IF at = "read_register" THEN RegisterReadCommand(CONF_SAR_ADDRESS)
                  ELSE RegisterWriteCommand(CONF_SAR_ADDRESS,
                                            ConfigurationRegister_to_u8(o.local[1]))

\* a register read called on its own returns the decoded register
RegisterResult(r) == IF r.ok THEN Ok(<<r.reg>>) ELSE Err(r.err)

\* what the function in progress does with the outcome of its transport call
Continue(o, at, t) ==
    CASE o.name = "into_write_mode" -> into_write_mode(at, t, o)
      [] o.name = "into_read_mode" -> into_read_mode(at, t, o)
      [] o.name = "erase_128kb_block" -> erase_128kb_block(at, t, o)
      [] o.name = "write_data_buffer_to_memory" -> write_data_buffer_to_memory(at, t, o)
      [] o.name = "quad_load_to_data_buffer" -> quad_load_to_data_buffer(at, t, o)
      [] o.name = "single_load_to_data_buffer" -> single_load_to_data_buffer(at, t, o)
      [] o.name = "reset_device" -> reset_device(at, t, o)
      [] o.name = "get_jedec_id" -> get_jedec_id(at, t, o)
      [] o.name = "wait_while_busy" -> wait_while_busy(at, t, o)
      [] o.name = "read_status_register" ->
             Return(RegisterResult(read_status_register(t)), o.mode)
      [] o.name = "read_protection_register" ->
             Return(RegisterResult(read_protection_register(t)), o.mode)
      [] o.name = "read_configuration_register" ->
             Return(RegisterResult(read_configuration_register(t)), o.mode)
      [] o.name = "check_write_or_erase_failure" ->
             Return(check_write_or_erase_failure(t), o.mode)
      [] o.name = "write_protection_register" -> write_protection_register(at, t, o)
      [] o.name = "write_configuration_register" ->
             write_configuration_register(at, t, o)
      [] o.name = "set_write_protection" -> set_write_protection(at, t, o)
      [] o.name = "set_continuous_read_mode" -> set_continuous_read_mode(at, t, o)
      [] o.name = "read_memory_to_data_buffer" -> read_memory_to_data_buffer(at, t, o)
      [] o.name = "read_data_buffer" -> read_data_buffer(at, t, o)
      [] o.name = "read_bbm_lookup_table" -> read_bbm_lookup_table(at, t, o)

\* arguments the calls are made with
ProtValues == {130}
\* the configuration byte the chip holds at power-up: ecc_e and buf set; the
\* three low bits are not fields of the ConfigurationRegister and the chip
\* holds bit 0 clear or set
ConfValues == {24, 25}
ProtArgs == {<<TRUE, FALSE, TRUE, FALSE, TRUE>>}
LoadBytes == {<<0, 1, 2, 3, 42>>}
LoadOffsets == {0, 5}

\* no example program: the calls come in any order
NoMain == [prog |-> "none", line |-> 1, page |-> 0]

\* lib.rs new_w25_n01_gv: the handle starts in Read mode
Init ==
    /\ handle = "Read"
    /\ dev \in {[DevInit EXCEPT !.conf = c] : c \in ConfValues}
    /\ bus = <<>>
    /\ op = [name |-> "new_w25_n01_gv", arg |-> <<>>, mode |-> "None",
             result |-> Ok(<<>>), local |-> <<>>]
    /\ pc = "idle"
    /\ main = NoMain

\* the impl blocks: which handle a method can be called on
InReadMode(h) == h = "Read"
\* fault: the Write-mode methods offered on every handle
InWriteMode_any(h) == h \in {"Read", "Write"}
InWriteMode(h) == h = "Write"
InAnyMode(h) == h \in {"Read", "Write"}

\* a function is called: nothing is on the bus yet
Call(name, arg, local, at) ==
    /\ pc = "idle"
    /\ pc' = at
    /\ bus' = <<>>
    /\ op' = [name |-> name, arg |-> arg, mode |-> handle, result |-> Running,
              local |-> local]
    /\ UNCHANGED <<handle, dev>>

\* a call by a caller that follows no program
Begin(name, arg, local, at) ==
    /\ main = NoMain
    /\ Call(name, arg, local, at)
    /\ UNCHANGED main

\* a caller that lost its handle builds the driver again; the chip keeps
\* its state
NewHandle ==
    /\ pc = "idle" /\ handle = "None" /\ main = NoMain
    /\ handle' = "Read"
    /\ bus' = <<>>
    /\ op' = [name |-> "new_w25_n01_gv", arg |-> <<>>, mode |-> "None",
              result |-> Ok(<<>>), local |-> <<>>]
    /\ UNCHANGED <<dev, pc, main>>

IntoWriteMode ==
    InReadMode(handle) /\ Begin("into_write_mode", <<>>, <<>>, "check_busy")

IntoReadMode ==
    InWriteMode(handle) /\ Begin("into_read_mode", <<>>, <<>>, "check_busy")

Erase128kbBlock ==
    /\ InWriteMode(handle)
    /\ \E p \in PageAddrs : Begin("erase_128kb_block", [page_address |-> p], <<>>, "check_busy")

WriteDataBufferToMemory ==
    /\ InWriteMode(handle)
    /\ \E p \in PageAddrs :
          Begin("write_data_buffer_to_memory", [page_address |-> p], <<>>,
                "check_busy")

QuadLoadToDataBuffer ==
    /\ InWriteMode(handle)
    /\ \E bytes \in LoadBytes, a \in LoadOffsets, c \in BOOLEAN :
          Begin("quad_load_to_data_buffer",
                [bytes |-> bytes, starting_address |-> a, clear_unwritten_bytes |-> c],
                <<>>, "check_busy")

SingleLoadToDataBuffer ==
    /\ InWriteMode(handle)
    /\ \E bytes \in LoadBytes, a \in LoadOffsets, c \in BOOLEAN :
          Begin("single_load_to_data_buffer",
                [bytes |-> bytes, starting_address |-> a, clear_unwritten_bytes |-> c],
                <<>>, "check_busy")

ResetDevice ==
    InAnyMode(handle) /\ Begin("reset_device", <<>>, <<>>, "check_busy")

GetJedecId ==
    InAnyMode(handle) /\ Begin("get_jedec_id", <<>>, <<>>, "check_busy")

WaitWhileBusy ==
    InAnyMode(handle) /\ Begin("wait_while_busy", <<>>, <<>>, "check_busy")

ReadStatusRegisterCall ==
    InAnyMode(handle) /\ Begin("read_status_register", <<>>, <<>>, "transfer")

ReadProtectionRegister ==
    InAnyMode(handle) /\ Begin("read_protection_register", <<>>, <<>>, "transfer")

ReadConfigurationRegister ==
    InAnyMode(handle) /\ Begin("read_configuration_register", <<>>, <<>>, "transfer")

CheckWriteOrEraseFailure ==
    InAnyMode(handle) /\ Begin("check_write_or_erase_failure", <<>>, <<>>, "transfer")

WriteProtectionRegister ==
    /\ InAnyMode(handle)
    /\ \E v \in ProtValues :
          Begin("write_protection_register",
                [protection_register |-> DecodeProtectionRegister(v)],
                <<DecodeProtectionRegister(v)>>, "write_check_busy")

WriteConfigurationRegister ==
    /\ InAnyMode(handle)
    /\ \E buf \in BOOLEAN :
          Begin("write_configuration_register",
                [configuration_register |->
                    [DecodeConfigurationRegister(16) EXCEPT !.buf = buf]],
                <<[DecodeConfigurationRegister(16) EXCEPT !.buf = buf]>>,
                "write_check_busy")

SetWriteProtection ==
    /\ InAnyMode(handle)
    /\ \E a \in ProtArgs :
          Begin("set_write_protection",
                [tb |-> a[1], bp3 |-> a[2], bp2 |-> a[3], bp1 |-> a[4], bp0 |-> a[5]],
                <<>>, "check_busy")

SetContinuousReadMode ==
    /\ InAnyMode(handle)
    /\ \E c \in BOOLEAN :
          Begin("set_continuous_read_mode", [continuous_read |-> c], <<>>, "check_busy")

ReadMemoryToDataBuffer ==
    /\ InAnyMode(handle)
    /\ \E p \in PageAddrs :
          Begin("read_memory_to_data_buffer", [page_address |-> p], <<>>,
                "check_busy")

ReadDataBuffer ==
    /\ InAnyMode(handle)
    /\ \E m \in ReadMethods :
          Begin("read_data_buffer", [method |-> m], <<>>, "check_busy")

ReadBbmLookupTable ==
    InAnyMode(handle) /\ Begin("read_bbm_lookup_table", <<>>, <<>>, "check_busy")

\* the log of the transport calls of the function in progress.  The loop of
\* wait_while_busy has no bound: its log keeps the first MaxPolls - 1 queries
\* and the latest one.
Logged(log, name, e) ==
    IF name = "wait_while_busy" /\ Len(log) >= MaxPolls
    THEN [log EXCEPT ![Len(log)] = e]
    ELSE Append(log, e)

\* the function in progress makes its next transport call and acts on the
\* outcome
TransportCall ==
    /\ pc # "idle"
    /\ \E res \in QspiResults :
          LET cmd == CommandAt(op, pc)
              t == Xfer(dev, cmd, res)
              k == Continue(op, pc, t)
          IN /\ dev' = t.dev
             /\ bus' = Logged(bus, op.name, BusEntry(dev, cmd, t))
             /\ pc' = k.pc
             /\ handle' = k.handle
             /\ op' = [op EXCEPT !.result = k.result, !.local = k.local]
    /\ UNCHANGED main

\* the chip finishes the operation in progress
DeviceDone ==
    /\ dev.busy
    /\ \E failed \in BOOLEAN : dev' = Complete(dev, failed)
    /\ UNCHANGED <<handle, bus, op, pc, main>>

Next ==
    \/ NewHandle
    \/ IntoWriteMode
    \/ IntoReadMode
    \/ Erase128kbBlock
    \/ WriteDataBufferToMemory
    \/ QuadLoadToDataBuffer
    \/ SingleLoadToDataBuffer
    \/ ResetDevice
    \/ GetJedecId
    \/ WaitWhileBusy
    \/ ReadStatusRegisterCall
    \/ ReadProtectionRegister
    \/ ReadConfigurationRegister
    \/ CheckWriteOrEraseFailure
    \/ WriteProtectionRegister
    \/ WriteConfigurationRegister
    \/ SetWriteProtection
    \/ SetContinuousReadMode
    \/ ReadMemoryToDataBuffer
    \/ ReadDataBuffer
    \/ ReadBbmLookupTable
    \/ TransportCall
    \/ DeviceDone

Spec == Init /\ [][Next]_vars

(*************************** example programs *******************************)

\* examples/write_read.rs, main from into_write_mode on, for page address p:
\* erase the block, load five bytes at column 0, program the page, stage it
\* and read the buffer (single_read_data_buffer is the single-channel fast
\* read)
WriteReadMain(p) ==
    << [name |-> "into_write_mode", arg |-> <<>>],
       [name |-> "erase_128kb_block", arg |-> [page_address |-> p]],
       [name |-> "wait_while_busy", arg |-> <<>>],
       [name |-> "into_write_mode", arg |-> <<>>],
       [name |-> "single_load_to_data_buffer",
        arg |-> [bytes |-> <<0, 1, 2, 3, 42>>, starting_address |-> 0,
                 clear_unwritten_bytes |-> TRUE]],
       [name |-> "write_data_buffer_to_memory", arg |-> [page_address |-> p]],
       [name |-> "wait_while_busy", arg |-> <<>>],
       [name |-> "read_memory_to_data_buffer", arg |-> [page_address |-> p]],
       [name |-> "wait_while_busy", arg |-> <<>>],
       [name |-> "read_data_buffer", arg |-> [method |-> "FastRead"]] >>

\* examples/validate.rs, main: the erase of the block, then the staging and
\* the reading of a page, without the programming in between
EraseReadMain(p) ==
    << [name |-> "into_write_mode", arg |-> <<>>],
       [name |-> "erase_128kb_block", arg |-> [page_address |-> p]],
       [name |-> "wait_while_busy", arg |-> <<>>],
       [name |-> "read_memory_to_data_buffer", arg |-> [page_address |-> p]],
       [name |-> "wait_while_busy", arg |-> <<>>],
       [name |-> "read_data_buffer", arg |-> [method |-> "FastReadQuadIO"]] >>

Program(m) ==
    CASE m.prog = "write_read" -> WriteReadMain(m.page)
      [] m.prog = "erase_read" -> EraseReadMain(m.page)
      [] OTHER -> <<>>

\* the impl block of each function the programs call
Callable(name, h) ==
    IF name = "into_write_mode" THEN InReadMode(h)
    ELSE IF name \in {"erase_128kb_block", "single_load_to_data_buffer",
                      "write_data_buffer_to_memory"} THEN InWriteMode(h)
    ELSE InAnyMode(h)

\* the pages the programs' commands can address, in either byte order
ExamplePages ==
    UNION {{PageFromBytes(o, to_le_bytes(p)), PageFromBytes(o, to_be_bytes(p))} :
              o \in ByteOrders, p \in PageAddrs}

ExampleInit ==
    /\ handle = "Read"
    /\ dev \in {DevFollowing(o, ExamplePages) : o \in ByteOrders}
    /\ bus = <<>>
    /\ op = [name |-> "new_w25_n01_gv", arg |-> <<>>, mode |-> "None",
             result |-> Ok(<<>>), local |-> <<>>]
    /\ pc = "idle"
    /\ main \in {[prog |-> g, line |-> 1, page |-> p] :
                    g \in {"write_read", "erase_read"}, p \in PageAddrs}

\* the program makes its next call; it unwraps every Result, so it stops at
\* the first Err
ExampleCall ==
    /\ main.line <= Len(Program(main))
    /\ main.line > 1 => op.result.ok
    /\ LET c == Program(main)[main.line] IN
          /\ Callable(c.name, handle)
          /\ Call(c.name, c.arg, <<>>, "check_busy")
    /\ main' = [main EXCEPT !.line = @ + 1]

ExampleNext == ExampleCall \/ TransportCall \/ DeviceDone

ExampleSpec == ExampleInit /\ [][ExampleNext]_vars

(************************ encoders and decoders *****************************)

\* The register encoders (to_u8) and the decoders that follow a transfer
\* (the read_*_register functions, read_bbm_lookup_table), applied to every
\* value of their input.  op.arg is the input, op.local the value between the
\* two halves of a round trip, op.result the output; pc is the half to come.

ProtectionRegisters ==
    [srp0 : BOOLEAN, bp3 : BOOLEAN, bp2 : BOOLEAN, bp1 : BOOLEAN,
     bp0 : BOOLEAN, tb : BOOLEAN, wpe : BOOLEAN, srp1 : BOOLEAN]

ConfigurationRegisters ==
    [otp_l : BOOLEAN, otp_e : BOOLEAN, sr1_l : BOOLEAN, ecc_e : BOOLEAN, buf : BOOLEAN]

\* one byte read from a register (u8)
Bytes == 0..255

\* the buffers given to the decoder of the bad-block table: the bytes of a
\* slot are drawn from SlotByteValues; one slot is filled, or two next to
\* each other
SlotByteValues == {0, 1, 2, 255}
SlotValues == [1..4 -> SlotByteValues]
PairSlotValues == {<<1, 2, 3, 4>>, <<0, 0, 0, 7>>}
Slots == 0..(MAX_BBM_LUT_ENTIRES - 1)

OneSlot(i, s) ==
    [k \in 1..(MAX_BBM_LUT_ENTIRES * 4) |->
        IF (k - 1) \div 4 = i THEN s[k - 4 * i] ELSE 0]

TwoSlots(i, s, u) ==
    [k \in 1..(MAX_BBM_LUT_ENTIRES * 4) |->
        IF (k - 1) \div 4 = i THEN s[k - 4 * i]
        ELSE IF (k - 1) \div 4 = i + 1 THEN u[k - 4 * (i + 1)]
        ELSE 0]

BbmBuffers ==
    {OneSlot(i, s) : i \in Slots, s \in SlotValues}
    \cup {TwoSlots(i, s, u) : i \in Slots \ {MAX_BBM_LUT_ENTIRES - 1},
                              s \in PairSlotValues, u \in PairSlotValues}

\* a transfer that succeeded and filled the buffer with `bytes`
Received(bytes) == [dev |-> DevInit, ok |-> TRUE, err |-> "Ok", rx |-> bytes]

Apply(name, arg, first) ==
    [name |-> name, arg |-> arg, mode |-> "Read", result |-> Running, local |-> <<>>,
     first |-> first]

CodecInputs ==
    {Apply("ProtectionRegister", [register |-> r], "to_u8") : r \in ProtectionRegisters}
    \cup {Apply("ConfigurationRegister", [register |-> r], "to_u8") :
              r \in ConfigurationRegisters}
    \cup {Apply("protection_byte", [byte |-> b], "from_u8") : b \in Bytes}
    \cup {Apply("configuration_byte", [byte |-> b], "from_u8") : b \in Bytes}
    \cup {Apply("status_byte", [byte |-> b], "from_u8") : b \in Bytes}
    \cup {Apply("bbm_bytes", [buffer |-> x], "from_bytes") : x \in BbmBuffers}

CodecInit ==
    /\ handle = "Read"
    /\ dev = DevInit
    /\ bus = <<>>
    /\ main = NoMain
    /\ \E a \in CodecInputs :
          /\ op = [f \in DOMAIN a \ {"first"} |-> a[f]]
          /\ pc = a.first

\* ProtectionRegister::to_u8, first or second half of a round trip
ProtectionToU8 ==
    /\ pc = "to_u8"
    /\ \/ /\ op.name = "ProtectionRegister"
          /\ op' = [op EXCEPT !.local = <<ProtectionRegister_to_u8(op.arg.register)>>]
          /\ pc' = "from_u8"
       \/ /\ op.name = "protection_byte"
          /\ op' = [op EXCEPT !.result = Ok(<<ProtectionRegister_to_u8(op.local[1])>>)]
          /\ pc' = "idle"
    /\ UNCHANGED <<handle, dev, bus, main>>

\* the decoding in read_protection_register
ProtectionFromU8 ==
    /\ pc = "from_u8"
    /\ \/ /\ op.name = "ProtectionRegister"
          /\ op' = [op EXCEPT !.result =
                        RegisterResult(read_protection_register(Received(op.local)))]
          /\ pc' = "idle"
       \/ /\ op.name = "protection_byte"
          /\ op' = [op EXCEPT !.local =
                        <<read_protection_register(Received(<<op.arg.byte>>)).reg>>]
          /\ pc' = "to_u8"
    /\ UNCHANGED <<handle, dev, bus, main>>

\* ConfigurationRegister::to_u8
ConfigurationToU8 ==
    /\ pc = "to_u8"
    /\ \/ /\ op.name = "ConfigurationRegister"
          /\ op' = [op EXCEPT !.local = <<ConfigurationRegister_to_u8(op.arg.register)>>]
          /\ pc' = "from_u8"
       \/ /\ op.name = "configuration_byte"
          /\ op' = [op EXCEPT !.result = Ok(<<ConfigurationRegister_to_u8(op.local[1])>>)]
          /\ pc' = "idle"
    /\ UNCHANGED <<handle, dev, bus, main>>

\* the decoding in read_configuration_register
ConfigurationFromU8 ==
    /\ pc = "from_u8"
    /\ \/ /\ op.name = "ConfigurationRegister"
          /\ op' = [op EXCEPT !.result =
                        RegisterResult(read_configuration_register(Received(op.local)))]
          /\ pc' = "idle"
       \/ /\ op.name = "configuration_byte"
          /\ op' = [op EXCEPT !.local =
                        <<read_configuration_register(Received(<<op.arg.byte>>)).reg>>]
          /\ pc' = "to_u8"
    /\ UNCHANGED <<handle, dev, bus, main>>

\* the decoding in read_status_register
StatusFromU8 ==
    /\ pc = "from_u8" /\ op.name = "status_byte"
    /\ op' = [op EXCEPT !.result =
                  RegisterResult(read_status_register(Received(<<op.arg.byte>>)))]
    /\ pc' = "idle"
    /\ UNCHANGED <<handle, dev, bus, main>>

\* the decoding in read_bbm_lookup_table
BbmFromBytes ==
    /\ pc = "from_bytes" /\ op.name = "bbm_bytes"
    /\ op' = [op EXCEPT !.result =
                  read_bbm_lookup_table("command", Received(op.arg.buffer), op).result]
    /\ pc' = "idle"
    /\ UNCHANGED <<handle, dev, bus, main>>

CodecNext ==
    \/ ProtectionToU8
    \/ ProtectionFromU8
    \/ ConfigurationToU8
    \/ ConfigurationFromU8
    \/ StatusFromU8
    \/ BbmFromBytes

CodecSpec == CodecInit /\ [][CodecNext]_vars

\* The function in progress keeps running, and a busy chip finishes what it
\* is doing.
FairSpec ==
    Init /\ [][Next]_vars
         /\ WF_vars(TransportCall) /\ WF_vars(DeviceDone)

(******************************* claims ************************************)

Returned == pc = "idle" /\ op.name # "new_w25_n01_gv"

\* a bus entry that is a read of the status register
IsStatusRead(e) ==
    /\ e.cmd.kind = "transfer"
    /\ e.cmd.instruction = 5
    /\ e.cmd.alternative_bytes = <<192>>
    /\ e.cmd.address = <<>>
    /\ e.cmd.dummy_cycles = 0
    /\ e.cmd.receive_length = 1

\* a status read that succeeded and showed the given bit set
Showed(e, mask) == e.res = "Ok" /\ Bit(e.rx[1], mask)

GatedOps ==
    {"into_write_mode", "into_read_mode", "erase_128kb_block",
     "single_load_to_data_buffer", "quad_load_to_data_buffer",
     "write_data_buffer_to_memory", "read_memory_to_data_buffer",
     "read_data_buffer", "read_bbm_lookup_table", "write_protection_register",
     "write_configuration_register", "set_write_protection",
     "set_continuous_read_mode"}

\* C1: a gated operation called while the chip is busy returns DeviceBusy
\* and makes no transport call but the one status read of its pre-flight
\* check.
C1_BusyGating ==
    (op.name \in GatedOps /\ Len(bus) >= 1 /\ bus[1].res = "Ok" /\ bus[1].busy)
        => /\ pc = "idle"
           /\ op.result = Err("DeviceBusy")
           /\ Len(bus) = 1
           /\ IsStatusRead(bus[1])

C1_Witness ==
    /\ pc = "idle" /\ op.name = "erase_128kb_block" /\ op.mode = "Write"
    /\ Len(bus) = 1 /\ bus[1].busy /\ op.result = Err("DeviceBusy")

\* C2: when into_write_mode fails the caller still holds a Read-mode handle,
\* and when into_read_mode fails the caller still holds a Write-mode handle.
C2_FailedTransitionKeepsHandle ==
    /\ (pc = "idle" /\ op.name = "into_write_mode" /\ ~op.result.ok)
           => handle = "Read"
    /\ (pc = "idle" /\ op.name = "into_read_mode" /\ ~op.result.ok)
           => handle = "Write"

\* C3: between calls the caller holds a Write-mode handle only while the
\* chip's write-enable latch is set, and no block-erase or program-execute
\* command is delivered with the latch clear.
C3_WriteHandleOnlyWhileLatchSet ==
    /\ (pc = "idle" /\ handle = "Write") => dev.wel
    /\ \A i \in DOMAIN bus :
          (bus[i].cmd.instruction \in {216, 16} /\ bus[i].res = "Ok") => bus[i].wel

WriteOnlyOpcodes == {216, 2, 132, 50, 52, 16}

\* C4: a block-erase, load-program-data or program-execute command is sent
\* only by a call made on a Write-mode handle; a call made on a Read-mode
\* handle is into_write_mode or a mode-independent operation and puts none
\* of these commands, nor disable-write, on the bus.
C4_ModeSeparation ==
    /\ \A i \in DOMAIN bus :
          bus[i].cmd.instruction \in WriteOnlyOpcodes => op.mode = "Write"
    /\ op.mode = "Read" =>
          /\ op.name \notin {"into_read_mode", "erase_128kb_block",
                             "quad_load_to_data_buffer",
                             "single_load_to_data_buffer",
                             "write_data_buffer_to_memory"}
          /\ \A i \in DOMAIN bus : bus[i].cmd.instruction # 4

C4_Witness ==
    /\ op.mode = "Write" /\ Len(bus) = 2
    /\ bus[2].cmd.instruction = 216 /\ bus[2].res = "Ok"

\* a write of one instruction byte and nothing else
IsBareWrite(e, ins) ==
    /\ e.cmd.kind = "write"
    /\ e.cmd.instruction = ins
    /\ e.cmd.address = <<>>
    /\ e.cmd.alternative_bytes = <<>>
    /\ e.cmd.data = <<>>
    /\ e.cmd.dummy_cycles = 0

TransitionOk(name, ins, mode) ==
    (pc = "idle" /\ op.name = name) =>
        /\ op.result.ok <=> (\A i \in DOMAIN bus : bus[i].res = "Ok") /\ ~bus[1].busy
        /\ op.result.ok =>
              /\ Len(bus) = 2
              /\ IsStatusRead(bus[1])
              /\ IsBareWrite(bus[2], ins)
              /\ handle = mode

\* C5: with the chip not busy and the transport succeeding, into_write_mode
\* makes one status read, then one write of instruction 0x06 with no
\* address, no data and no dummy cycles, and returns a Write-mode handle;
\* into_read_mode does the same with 0x04 and returns a Read-mode handle.
C5_TransitionFraming ==
    /\ TransitionOk("into_write_mode", 6, "Write")
    /\ TransitionOk("into_read_mode", 4, "Read")

C5_Witness ==
    /\ pc = "idle" /\ op.name = "into_read_mode" /\ op.result.ok /\ handle = "Read"

EraseCommandWritten ==
    /\ pc = "idle" /\ op.name = "erase_128kb_block"
    /\ Len(bus) >= 2 /\ bus[2].res = "Ok"

\* C6 as claimed: after the block-erase command the operation returns
\* WriteFailure if the status it reads has erase_failure set, else a
\* Read-mode handle; and every erase that fails (the chip sets erase_failure
\* when it completes) is reported as WriteFailure by the call that started it.
C6_EveryFailingEraseReported ==
    /\ (EraseCommandWritten /\ Len(bus) = 3 /\ Showed(bus[3], 4))
           => op.result = Err("WriteFailure")
    /\ (EraseCommandWritten /\ bus[2].wel /\ ~dev.busy /\ dev.efail)
           => op.result = Err("WriteFailure")

\* C6 amended: after the block-erase command has been written the operation
\* reads the status register once, without waiting; it returns WriteFailure
\* if that read succeeds with erase_failure set and a Read-mode handle
\* otherwise, so a failure the chip reports later is not reported by the call.
C6_EraseFailureAtStatusRead ==
    EraseCommandWritten =>
        /\ Len(bus) = 3
        /\ IsStatusRead(bus[3])
        /\ IF Showed(bus[3], 4)
           THEN op.result = Err("WriteFailure")
           ELSE op.result.ok /\ handle = "Read"

C6_Witness ==
    /\ EraseCommandWritten /\ bus[2].wel /\ Showed(bus[3], 4)
    /\ ~Showed(bus[1], 4)
    /\ op.result = Err("WriteFailure")

\* C7: after the program-execute command write_data_buffer_to_memory returns
\* WriteFailure if the status read after it has erase_failure or
\* write_failure set, and a Read-mode handle only when both are clear.
C7_ProgramFailureEitherBit ==
    (/\ pc = "idle" /\ op.name = "write_data_buffer_to_memory"
     /\ Len(bus) = 3 /\ bus[2].res = "Ok" /\ bus[3].res = "Ok")
        => IF Showed(bus[3], 4) \/ Showed(bus[3], 8)
           THEN op.result = Err("WriteFailure")
           ELSE op.result.ok /\ handle = "Read"

TransportErrorKind(res) ==
    IF res = "Busy" THEN "QSPIBusy"
    ELSE IF res = "Address" THEN "QSPIAddress"
    ELSE "QSPIUnknown"

\* C8: in every operation but wait_while_busy a failed transport call makes
\* the operation return the matching transport error.
C8_ErrorPropagation ==
    (Returned /\ op.name # "wait_while_busy") =>
        \A i \in DOMAIN bus :
            bus[i].res # "Ok" => op.result = Err(TransportErrorKind(bus[i].res))

ExemptOps == {"reset_device", "get_jedec_id"}

\* C9 as claimed: reset_device and get_jedec_id do not query the status
\* register first; they send their command also when the chip is busy and
\* never return DeviceBusy.
C9_ResetAndJedecUngated ==
    (op.name \in ExemptOps /\ Len(bus) >= 1) =>
        /\ bus[1].cmd.instruction \in {255, 159}
        /\ op.result.err # "DeviceBusy"

\* C9 amended: reset_device and get_jedec_id are busy-gated like the other
\* commands: each reads the status register first, returns DeviceBusy
\* without sending its command if device_busy is set, and otherwise sends
\* 0xFF, respectively 0x9F with 8 dummy cycles and a 3-byte response.
C9_ResetAndJedecGated ==
    (op.name \in ExemptOps /\ Len(bus) >= 1) =>
        /\ IsStatusRead(bus[1])
        /\ Showed(bus[1], 1) =>
              pc = "idle" /\ op.result = Err("DeviceBusy") /\ Len(bus) = 1
        /\ (bus[1].res = "Ok" /\ ~Bit(bus[1].rx[1], 1)) =>
              \/ pc = "command" /\ Len(bus) = 1
              \/ /\ pc = "idle" /\ Len(bus) = 2
                 /\ IF op.name = "reset_device"
                    THEN IsBareWrite(bus[2], 255)
                    ELSE /\ bus[2].cmd.kind = "transfer"
                         /\ bus[2].cmd.instruction = 159
                         /\ bus[2].cmd.dummy_cycles = 8
                         /\ bus[2].cmd.receive_length = 3
                         /\ bus[2].cmd.address = <<>>

C9_Witness ==
    /\ pc = "idle" /\ op.name = "reset_device" /\ dev.busy
    /\ op.result = Err("DeviceBusy") /\ Len(bus) = 1

\* C10: wait_while_busy makes status reads only; it goes on exactly while
\* the status queries succeed and report busy, returns at the first query
\* that fails or reports not busy, and returns the same unit value in both
\* cases.
C10_WaitExit ==
    op.name = "wait_while_busy" =>
        /\ \A i \in DOMAIN bus : IsStatusRead(bus[i])
        /\ \A i \in DOMAIN bus : i < Len(bus) => Showed(bus[i], 1)
        /\ pc = "idle" =>
              /\ Len(bus) >= 1
              /\ ~Showed(bus[Len(bus)], 1)
              /\ op.result = Ok(<<>>)
              /\ handle = op.mode
        /\ (pc # "idle" /\ Len(bus) >= 1) => Showed(bus[Len(bus)], 1)

C10_Witness ==
    /\ pc = "idle" /\ op.name = "wait_while_busy" /\ Len(bus) = 2
    /\ Showed(bus[1], 1) /\ bus[2].res # "Ok" /\ dev.busy
    /\ op.result = Ok(<<>>)

\* C11: when the first status query of wait_while_busy succeeds and reports
\* device_busy clear, wait_while_busy has returned after that one read: no
\* second query is on the bus and none is to come.
C11_IdleWaitOneRead ==
    (op.name = "wait_while_busy" /\ Len(bus) >= 1
        /\ bus[1].res = "Ok" /\ ~Showed(bus[1], BUSY_BIT)) =>
        /\ pc = "idle"
        /\ Len(bus) = 1
        /\ IsStatusRead(bus[1])
        /\ op.result = Ok(<<>>)

C11_Witness ==
    /\ op.name = "wait_while_busy" /\ pc = "idle" /\ Len(bus) = 1
    /\ bus[1].res = "Ok" /\ ~bus[1].busy /\ ~Showed(bus[1], BUSY_BIT)

\* C12: the loop of wait_while_busy has no bound on its turns: a turn whose
\* status query succeeds and reports busy never ends the call, however many
\* turns came before; and when a busy chip eventually finishes (or a query
\* fails), a wait_while_busy in progress eventually returns.
C12_WaitTermination ==
    /\ []((op.name = "wait_while_busy" /\ Len(bus) >= 1
             /\ Showed(bus[Len(bus)], BUSY_BIT)) => pc # "idle")
    /\ (op.name = "wait_while_busy" /\ pc # "idle") ~> (pc = "idle")

\* the loop has made more than MaxPolls turns and the chip is still busy
C12_Witness ==
    /\ op.name = "wait_while_busy" /\ dev.busy
    /\ Len(bus) = MaxPolls
    /\ pc = (IF MaxPolls % 2 = 0 THEN "loop" ELSE "check_busy")

\* C13: the page address goes on the bus in one byte order: the two address
\* bytes a block erase, a program execute or a page data read sends for page
\* address p are the bytes each of the other two sends for the same p.
C13_PageAddressByteOrder ==
    \A i \in DOMAIN bus :
        bus[i].cmd.instruction \in {Erase128KBBlock, ProgramExecute, PageDataRead} =>
            LET p == op.arg.page_address IN
            /\ bus[i].cmd.data = EraseCommand(p).data
            /\ bus[i].cmd.data = ProgramExecuteCommand(p).data
            /\ bus[i].cmd.data = PageDataReadCommand(p).data

\* the example program has made all its calls and the last one returned Ok
MainDone ==
    /\ main.line > Len(Program(main)) /\ main.prog # "none"
    /\ pc = "idle" /\ op.name = "read_data_buffer" /\ op.result.ok

\* C14: when the write/read program has run to its end for page address p and
\* the chip reported no failed erase or program, the first bytes read back
\* are the bytes that were loaded, whichever byte order the chip uses.
C14_WriteReadRoundTrip ==
    (MainDone /\ main.prog = "write_read" /\ ~dev.efail /\ ~dev.pfail) =>
        SubSeq(op.result.val, 1, 5) = <<0, 1, 2, 3, 42>>

\* C15: when the erase/read program has run to its end for page address p
\* and the chip reported no failed erase, every byte read is 0xFF, whichever
\* byte order the chip uses.
C15_EraseThenRead ==
    (MainDone /\ main.prog = "erase_read" /\ ~dev.efail) =>
        op.result.val = Erased

RECURSIVE PopCount(_)
PopCount(b) == IF b = 0 THEN 0 ELSE (b % 2) + PopCount(b \div 2)

\* C16: a ProtectionRegister or ConfigurationRegister encoded by to_u8 and
\* decoded with the masks of its read function comes back with the same
\* field values, and the byte in between has exactly one bit set for each
\* field that is set (each field has a bit of its own).
C16_FieldRoundTrip ==
    op.name \in {"ProtectionRegister", "ConfigurationRegister"} =>
        /\ pc # "to_u8" =>
              /\ op.local[1] \in Bytes
              /\ PopCount(op.local[1]) =
                     Cardinality({f \in DOMAIN op.arg.register : op.arg.register[f]})
        /\ pc = "idle" => op.result = Ok(<<op.arg.register>>)

C16_Witness ==
    /\ pc = "idle" /\ op.name = "ProtectionRegister"
    /\ op.arg.register = [srp0 |-> TRUE, bp3 |-> FALSE, bp2 |-> TRUE, bp1 |-> FALSE,
                          bp0 |-> TRUE, tb |-> TRUE, wpe |-> FALSE, srp1 |-> TRUE]
    /\ op.local = <<173>>
    /\ op.result.ok

\* C17 as claimed: every byte decoded into a ProtectionRegister or into a
\* ConfigurationRegister and encoded again comes back unchanged.
C17_LosslessByteRoundTrip ==
    (pc = "idle" /\ op.name \in {"protection_byte", "configuration_byte"}) =>
        op.result = Ok(<<op.arg.byte>>)

\* C17: every byte decoded into a ProtectionRegister and encoded again comes
\* back unchanged; a byte decoded into a ConfigurationRegister, which has
\* five fields, comes back with its three low bits clear, and so unchanged
\* exactly when they were clear.
C17_ByteRoundTrip ==
    /\ (pc = "idle" /\ op.name = "protection_byte") =>
           op.result = Ok(<<op.arg.byte>>)
    /\ (pc = "idle" /\ op.name = "configuration_byte") =>
           /\ op.result = Ok(<<op.arg.byte - (op.arg.byte % 8)>>)
           /\ (op.result = Ok(<<op.arg.byte>>)) <=> (op.arg.byte % 8 = 0)

C17_Witness ==
    /\ pc = "idle" /\ op.name = "configuration_byte"
    /\ op.arg.byte = 31 /\ op.result = Ok(<<24>>)

\* C18: for every status byte, read_status_register gives ECCStatus::from_bits
\* bit 0x10 as ecc0 and bit 0x20 as ecc1, and from_bits maps (0,0) to
\* Successful, (1,0) to CorrectedSuccessfully, (0,1) to SinglePageError and
\* (1,1) to MultiPageError.
C18_EccStatusDecode ==
    /\ (pc = "idle" /\ op.name = "status_byte") =>
          LET ecc0 == (op.arg.byte \div 16) % 2
              ecc1 == (op.arg.byte \div 32) % 2
          IN /\ op.result.ok
             /\ op.result.val[1].ecc_status =
                    (CASE ecc0 = 0 /\ ecc1 = 0 -> "Successful"
                       [] ecc0 = 1 /\ ecc1 = 0 -> "CorrectedSuccessfully"
                       [] ecc0 = 0 /\ ecc1 = 1 -> "SinglePageError"
                       [] ecc0 = 1 /\ ecc1 = 1 -> "MultiPageError")
    /\ ECCStatus_from_bits(FALSE, FALSE) = "Successful"
    /\ ECCStatus_from_bits(TRUE, FALSE) = "CorrectedSuccessfully"
    /\ ECCStatus_from_bits(FALSE, TRUE) = "SinglePageError"
    /\ ECCStatus_from_bits(TRUE, TRUE) = "MultiPageError"

C18_Witness ==
    /\ pc = "idle" /\ op.name = "status_byte" /\ op.arg.byte = 16 + 1
    /\ op.result.val[1].ecc_status = "CorrectedSuccessfully"
    /\ op.result.val[1].device_busy

\* the buffer with every slot but slot i (counted from 1) set to zero
OnlySlot(x, i) == [k \in DOMAIN x |-> IF (k - 1) \div 4 = i - 1 THEN x[k] ELSE 0]

SlotIsZero(x, i) == \A k \in DOMAIN x : (k - 1) \div 4 = i - 1 => x[k] = 0

\* C19: read_bbm_lookup_table returns 20 entries; an all-zero buffer gives 20
\* absent entries, and the entry at index i is what the four bytes of slot i
\* alone decode to, at the same index: an all-zero slot gives an absent entry
\* whatever the other slots hold.
C19_BbmEmptyAndSlotOrder ==
    (pc = "idle" /\ op.name = "bbm_bytes") =>
        LET x == op.arg.buffer
            links == op.result.val
        IN /\ op.result.ok
           /\ Len(links) = MAX_BBM_LUT_ENTIRES
           /\ \A i \in 1..MAX_BBM_LUT_ENTIRES :
                 /\ links[i] = DecodeLinks(OnlySlot(x, i))[i]
                 /\ SlotIsZero(x, i) => links[i] = <<>>

C19_Witness ==
    /\ pc = "idle" /\ op.name = "bbm_bytes"
    /\ \A k \in DOMAIN op.arg.buffer : op.arg.buffer[k] = 0
    /\ \A i \in 1..MAX_BBM_LUT_ENTIRES : op.result.val[i] = <<>>

\* C20: a buffer with exactly one slot that is not all zero decodes to
\* exactly one present entry, at that slot's index, whose logical address is
\* made of the slot's first two bytes and whose physical address of its last
\* two, each byte on 8 bits of its own (in one order or the other).
C20_BbmOneSlotDecode ==
    (pc = "idle" /\ op.name = "bbm_bytes") =>
        LET x == op.arg.buffer
            links == op.result.val
            filled == {i \in 1..MAX_BBM_LUT_ENTIRES : ~SlotIsZero(x, i)}
        IN Cardinality(filled) = 1 =>
              \A i \in 1..MAX_BBM_LUT_ENTIRES :
                 IF i \in filled
                 THEN LET k == (i - 1) * 4 IN
                      /\ links[i] # <<>>
                      /\ links[i][1] \in {x[k + 1] + 256 * x[k + 2],
                                          x[k + 2] + 256 * x[k + 1]}
                      /\ links[i][2] \in {x[k + 3] + 256 * x[k + 4],
                                          x[k + 4] + 256 * x[k + 3]}
                 ELSE links[i] = <<>>

\* the framing of the fast-read commands, one row per ReadMethod
FastReadTable ==
    [FastRead |-> [opcode |-> 11, dummy |-> 8, wide_address |-> FALSE],
     DualFastRead |-> [opcode |-> 59, dummy |-> 8, wide_address |-> FALSE],
     QuadFastRead |-> [opcode |-> 107, dummy |-> 8, wide_address |-> FALSE],
     FastReadDualIO |-> [opcode |-> 187, dummy |-> 4, wide_address |-> TRUE],
     FastReadQuadIO |-> [opcode |-> 235, dummy |-> 4, wide_address |-> TRUE]]

\* C21: the command read_data_buffer passes to the transport has the
\* method's opcode (0x0B, 0x3B, 0x6B, 0xBB, 0xEB) on a single line, 8 dummy
\* cycles for FastRead, DualFastRead and QuadFastRead and 4 for
\* FastReadDualIO and FastReadQuadIO, an address phase wider than a single
\* line for the two I/O variants only, column address 0 and a receive
\* length of 2112 bytes.
C21_FastReadFraming ==
    (op.name = "read_data_buffer" /\ Len(bus) >= 2) =>
        LET c == bus[2].cmd
            row == FastReadTable[op.arg.method]
        IN /\ Len(bus) = 2
           /\ c.kind = "transfer"
           /\ c.instruction = row.opcode
           /\ c.instruction_mode = "SingleChannel"
           /\ c.dummy_cycles = row.dummy
           /\ (c.address_mode # "SingleChannel") <=> row.wide_address
           /\ c.address_mode \in {"SingleChannel", "DualChannel", "QuadChannel"}
           /\ c.address = <<0>>
           /\ c.alternative_bytes = <<>>
           /\ c.receive_length = 2112

C21_Witness ==
    /\ pc = "idle" /\ op.name = "read_data_buffer" /\ op.result.ok
    /\ op.arg.method = "FastReadQuadIO"
    /\ Len(bus) = 2 /\ bus[2].cmd.dummy_cycles = 4 /\ bus[2].res = "Ok"

\* a transfer of instruction 0x05 with one sub-address byte and a response of
\* one byte
IsRegisterRead(e, sar) ==
    /\ e.cmd.kind = "transfer"
    /\ e.cmd.instruction = 5
    /\ e.cmd.instruction_mode = "SingleChannel"
    /\ e.cmd.alternative_bytes = <<sar>>
    /\ e.cmd.address = <<>>
    /\ e.cmd.dummy_cycles = 0
    /\ e.cmd.receive_length = 1

\* a write of instruction 0x01 with the payload [sub-address, value]
IsRegisterWrite(e, sar, value) ==
    /\ e.cmd.kind = "write"
    /\ e.cmd.instruction = 1
    /\ e.cmd.instruction_mode = "SingleChannel"
    /\ e.cmd.address = <<>>
    /\ e.cmd.alternative_bytes = <<>>
    /\ e.cmd.dummy_cycles = 0
    /\ e.cmd.data = <<sar, value>>
    /\ e.cmd.data_mode = "SingleChannel"

\* the writes among the transport calls of the function in progress
BusWrites == {i \in DOMAIN bus : bus[i].cmd.kind = "write"}

RegisterReadFraming(name, sar) ==
    (op.name = name) =>
        /\ Len(bus) <= 1
        /\ pc = "idle" => Len(bus) = 1
        /\ \A i \in DOMAIN bus : IsRegisterRead(bus[i], sar)

RegisterWriteFraming(name, sar, value) ==
    (op.name = name) =>
        /\ Cardinality(BusWrites) <= 1
        /\ \A i \in BusWrites : i = Len(bus) /\ IsRegisterWrite(bus[i], sar, value)
        /\ (pc = "idle" /\ op.result.ok) => Cardinality(BusWrites) = 1

\* C22: read_status_register, read_protection_register and
\* read_configuration_register each make exactly one transfer, of
\* instruction 0x05 with the one-byte sub-address 0xC0, 0xA0 and 0xB0 and a
\* response of one byte; write_protection_register and
\* write_configuration_register each make one write, of instruction 0x01
\* with the two bytes [0xA0, encoded register] and [0xB0, encoded register].
C22_RegisterFraming ==
    /\ RegisterReadFraming("read_status_register", 192)
    /\ RegisterReadFraming("read_protection_register", 160)
    /\ RegisterReadFraming("read_configuration_register", 176)
    /\ RegisterWriteFraming("write_protection_register", 160,
                            ProtectionRegister_to_u8(op.arg.protection_register))
    /\ RegisterWriteFraming("write_configuration_register", 176,
                            ConfigurationRegister_to_u8(op.arg.configuration_register))

C22_Witness ==
    /\ pc = "idle" /\ op.name = "write_configuration_register" /\ op.result.ok
    /\ op.arg.configuration_register.buf
    /\ Len(bus) = 2 /\ bus[2].cmd.data = <<176, 24>>

\* the functions that query the status register before a command of their
\* own or after it
StatusQueriedTwice ==
    {"erase_128kb_block", "write_data_buffer_to_memory",
     "set_write_protection", "set_continuous_read_mode"}

\* C23: in every function other than wait_while_busy, no command is passed
\* to the transport twice in one call (the status queries before and after
\* a function's own command apart), and a transport call that fails is the
\* last transport call of the call: the function has returned.
C23_NoRetry ==
    (op.name \notin {"wait_while_busy", "new_w25_n01_gv"}) =>
        /\ \A i, j \in DOMAIN bus :
              (i < j /\ bus[i].cmd = bus[j].cmd) =>
                  /\ IsStatusRead(bus[i])
                  /\ op.name \in StatusQueriedTwice
                  /\ \A k \in DOMAIN bus : IsStatusRead(bus[k]) => k \in {i, j}
        /\ \A i \in DOMAIN bus :
              bus[i].res # "Ok" => (i = Len(bus) /\ pc = "idle")

C23_Witness ==
    /\ pc = "idle" /\ op.name = "read_data_buffer"
    /\ Len(bus) = 2 /\ bus[2].res = "Busy" /\ bus[2].cmd.instruction = 235
    /\ ~op.result.ok

\* the transport failures among the transport calls of the function that
\* returned
Failures == {bus[i].res : i \in DOMAIN bus} \ {"Ok"}

\* C24: a transport failure Busy, Address or Unknown on any transport call
\* of an operation is returned as QSPIBusy, QSPIAddress or QSPIUnknown
\* respectively: never as DeviceBusy or WriteFailure, never as another
\* transport kind, and the same in every operation (wait_while_busy, which
\* returns no value, apart).
C24_ErrorMappingOneToOne ==
    (Returned /\ op.name # "wait_while_busy" /\ Failures # {}) =>
        /\ ~op.result.ok
        /\ op.result.err \notin {"DeviceBusy", "WriteFailure"}
        /\ "Busy" \in Failures <=> op.result.err = "QSPIBusy"
        /\ "Address" \in Failures <=> op.result.err = "QSPIAddress"
        /\ "Unknown" \in Failures <=> op.result.err = "QSPIUnknown"

\* the two bytes of a page address, in one order or the other
PageAddressBytes(p) == {<<p % 256, p \div 256>>, <<p \div 256, p % 256>>}

EraseReturnedOk == pc = "idle" /\ op.name = "erase_128kb_block" /\ op.result.ok

\* C25: a successful erase_128kb_block makes exactly three transport calls:
\* a status read, a write of instruction 0xD8 with 8 dummy cycles and the
\* two bytes of the page address, a status read; it returns the Read-mode
\* handle whether the chip is still busy or not, so into_write_mode can be
\* called at once, and an into_write_mode whose status read shows the chip
\* busy returns DeviceBusy.
C25_EraseDoesNotWait ==
    /\ EraseReturnedOk =>
          /\ Len(bus) = 3
          /\ IsStatusRead(bus[1]) /\ bus[1].res = "Ok"
          /\ bus[2].cmd.kind = "write" /\ bus[2].res = "Ok"
          /\ bus[2].cmd.instruction = 216
          /\ bus[2].cmd.dummy_cycles = 8
          /\ bus[2].cmd.address = <<>>
          /\ bus[2].cmd.data \in PageAddressBytes(op.arg.page_address)
          /\ IsStatusRead(bus[3])
          /\ handle = "Read"
          /\ ENABLED IntoWriteMode
    /\ (pc = "idle" /\ op.name = "into_write_mode"
        /\ Len(bus) >= 1 /\ Showed(bus[1], BUSY_BIT)) =>
          (Len(bus) = 1 /\ op.result = Err("DeviceBusy"))

\* the erase has returned its handle and the chip is still erasing
C25_Witness ==
    /\ EraseReturnedOk /\ handle = "Read"
    /\ dev.busy /\ dev.pending = "erase"
    /\ Showed(bus[3], BUSY_BIT)

\* C26: when set_write_protection succeeds, the protection byte it writes
\* has tb, bp3, bp2, bp1 and bp0 equal to the arguments and srp0, srp1 and
\* wpe equal to those of the protection byte it has just read; when its
\* read of the protection register fails, it writes nothing.
C26_WriteProtectionReadModifyWrite ==
    (op.name = "set_write_protection") =>
        /\ (pc = "idle" /\ op.result.ok) =>
              /\ Len(bus) = 4
              /\ IsRegisterRead(bus[2], 160) /\ bus[2].res = "Ok"
              /\ bus[4].cmd.kind = "write" /\ bus[4].cmd.instruction = 1
              /\ Len(bus[4].cmd.data) = 2 /\ bus[4].cmd.data[1] = 160
              /\ LET read == bus[2].rx[1]
                     written == bus[4].cmd.data[2]
                 IN /\ Bit(written, 4) = op.arg.tb
                    /\ Bit(written, 64) = op.arg.bp3
                    /\ Bit(written, 32) = op.arg.bp2
                    /\ Bit(written, 16) = op.arg.bp1
                    /\ Bit(written, 8) = op.arg.bp0
                    /\ Bit(written, 128) = Bit(read, 128)
                    /\ Bit(written, 1) = Bit(read, 1)
                    /\ Bit(written, 2) = Bit(read, 2)
        /\ (Len(bus) >= 2 /\ bus[2].res # "Ok") =>
              (pc = "idle" /\ Len(bus) = 2 /\ ~op.result.ok /\ BusWrites = {})
        /\ BusWrites # {} => (Len(bus) = 4 /\ bus[2].res = "Ok")

\* the byte read has srp0 and wpe set, srp1 and tb clear; the byte written
\* keeps the three and sets tb
C26_Witness ==
    /\ pc = "idle" /\ op.name = "set_write_protection" /\ op.result.ok
    /\ op.arg.tb /\ Len(bus) = 4
    /\ bus[2].rx = <<130>> /\ bus[4].cmd.data = <<160, 174>> /\ bus[4].res = "Ok"

SetContinuousReadModeOk ==
    pc = "idle" /\ op.name = "set_continuous_read_mode" /\ op.result.ok

\* the configuration byte set_continuous_read_mode has read and the one it
\* has written
ConfRead == bus[2].rx[1]
ConfWritten == bus[4].cmd.data[2]

\* C27 as claimed: when set_continuous_read_mode(c) succeeds, the
\* configuration byte written has the buf bit (0x08) equal to NOT c and
\* every other bit equal to the same bit of the configuration byte just read.
C27_OnlyBufBitChanges ==
    SetContinuousReadModeOk =>
        /\ Len(bus) = 4
        /\ IsRegisterRead(bus[2], 176) /\ bus[2].res = "Ok"
        /\ bus[4].cmd.kind = "write" /\ bus[4].cmd.instruction = 1
        /\ Len(bus[4].cmd.data) = 2 /\ bus[4].cmd.data[1] = 176
        /\ Bit(ConfWritten, 8) = ~op.arg.continuous_read
        /\ \A mask \in {128, 64, 32, 16, 4, 2, 1} :
              Bit(ConfWritten, mask) = Bit(ConfRead, mask)

\* C27, amended: when set_continuous_read_mode(c) succeeds, the
\* configuration byte written has the buf bit (0x08) equal to NOT c, the
\* bits of otp_l, otp_e, sr1_l and ecc_e (0x80, 0x40, 0x20, 0x10) equal to
\* those of the configuration byte just read, and the three low bits clear
\* whatever they were in the byte read.
C27_OnlyBufFieldChanges ==
    SetContinuousReadModeOk =>
        /\ Len(bus) = 4
        /\ IsRegisterRead(bus[2], 176) /\ bus[2].res = "Ok"
        /\ bus[4].cmd.kind = "write" /\ bus[4].cmd.instruction = 1
        /\ Len(bus[4].cmd.data) = 2 /\ bus[4].cmd.data[1] = 176
        /\ Bit(ConfWritten, 8) = ~op.arg.continuous_read
        /\ \A mask \in {128, 64, 32, 16} :
              Bit(ConfWritten, mask) = Bit(ConfRead, mask)
        /\ ConfWritten % 8 = 0

\* continuous read is set on a chip whose configuration byte has bit 0 set
C27_Witness ==
    /\ SetContinuousReadModeOk /\ op.arg.continuous_read
    /\ ConfRead = 25 /\ ConfWritten = 16 /\ bus[4].res = "Ok"

LoadFraming(name, clear_opcode, random_opcode, lines) ==
    (op.name = name) =>
        /\ op.mode = "Write"
        /\ pc = "idle" => handle = "Write"
        /\ Len(bus) >= 2 =>
              LET c == bus[2].cmd IN
              /\ Len(bus) = 2
              /\ c.kind = "write"
              /\ c.instruction = IF op.arg.clear_unwritten_bytes
                                 THEN clear_opcode ELSE random_opcode
              /\ c.instruction_mode = "SingleChannel"
              /\ c.address = <<op.arg.starting_address>>
              /\ c.dummy_cycles = 0
              /\ c.data = op.arg.bytes
              /\ c.data_mode = lines

\* C28: single_load_to_data_buffer sends opcode 0x02 when
\* clear_unwritten_bytes is true and 0x84 when it is false, with the data on
\* a single line; quad_load_to_data_buffer sends 0x32 and 0x34, with the
\* data on four lines; both send the given byte offset as the address and 0
\* dummy cycles, and the handle is in Write mode after the call.
C28_LoadOpcodeSelection ==
    /\ LoadFraming("single_load_to_data_buffer", 2, 132, "SingleChannel")
    /\ LoadFraming("quad_load_to_data_buffer", 50, 52, "QuadChannel")

C28_Witness ==
    /\ pc = "idle" /\ op.name = "quad_load_to_data_buffer" /\ op.result.ok
    /\ ~op.arg.clear_unwritten_bytes /\ op.arg.starting_address = 5
    /\ Len(bus) = 2 /\ bus[2].cmd.instruction = 52 /\ bus[2].res = "Ok"
    /\ handle = "Write"

\* C29: the chip becomes busy by a command of the driver only and ends
\* being busy on its own; whatever the calls of the one caller, every
\* transport call other than a register read (instruction 0x05) is made
\* while the chip is not busy, so no command is ignored by a busy chip.
C29_NoCommandToBusyChip ==
    \A i \in DOMAIN bus :
        bus[i].cmd.instruction # 5 => ~bus[i].busy

\* a program-execute command went to a chip that was not busy, and the chip
\* is now busy programming
C29_Witness ==
    /\ op.name = "write_data_buffer_to_memory" /\ Len(bus) >= 2
    /\ bus[2].cmd.instruction = 16 /\ bus[2].res = "Ok" /\ ~bus[2].busy
    /\ dev.busy /\ dev.pending = "program"

\* the register a to_u8 of the codec was applied to
Encoded ==
    IF op.name \in {"ProtectionRegister", "ConfigurationRegister"}
    THEN op.arg.register
    ELSE op.local[1]

====
